---- MODULE Spec2Model ----
(***************************************************************************)
(* Job orchestration core of the Node gateway: upload, analyze, clean and  *)
(* delete request handlers, the background delegation tasks runAnalysis    *)
(* and runCleaning, the Mongo collections (jobs, analysis results,         *)
(* cleaning results), the Postgres audit log and the uploads directory.    *)
(* Every await of a handler or task that touches a store is one step.      *)
(***************************************************************************)
EXTENDS Integers, Sequences, FiniteSets, TLC

\* ---------------------------------------------------------------- bounds
MaxJobs == 2
MaxTasks == 2
MaxRules == 2
RaceJobs == 1
AccessTasks == 1
MaxRetries == 5

\* ------------------------------------------------------------- constants
UPLOAD_THRESHOLD == 50 * 1024 * 1024

Users == {"u1", "u2"}
Admins == {"root"}
Subjects == Users \cup Admins
Anonymous == "anon"

Role(s) == IF s \in Admins THEN "admin" ELSE "user"
User(s) == [id |-> s, role |-> Role(s)]

JobIds == 1..MaxJobs
\* 0 is an id that no upload ever generates
ReqIds == 0..MaxJobs
TaskIds == 1..MaxTasks

FileSizes == {UPLOAD_THRESHOLD, UPLOAD_THRESHOLD + 1}
Payloads == {"p1", "p2"}
RuleCounts == {0, MaxRules}

NoPath == <<>>
NoJob == [status |-> "none"]
Null == [null |-> TRUE]
NoTask == [pc |-> "idle", kind |-> "none", job |-> 0, by |-> "none", ack |-> "none",
           outcome |-> "none", payload |-> "none", nrules |-> 0, i |-> 0]

\* a response: status code and JSON body (one key, one value)
Body(key, text) == [key |-> key, text |-> text]
Resp(code, body) == [code |-> code, body |-> body, ids |-> {}]

NoDelete == [pc |-> "idle", by |-> "none", ids |-> {}]

\* the call of connectWithRetry made at startup: not made yet
NoConn == [pc |-> "idle", retries |-> 0, attempt |-> 0, calls |-> 0, connected |-> FALSE,
           last |-> "none", thrown |-> "none"]

JobStatusEnum == {"starting", "running", "completed", "failed", "cleaning", "cleaned", "unknown"}

VARIABLES jobs, analysisResults, cleaningResults, audit, disk, tasks, del, nextJob, users, conn

vars == <<jobs, analysisResults, cleaningResults, audit, disk, tasks, del, nextJob, users, conn>>

\* ------------------------------------------------------------ store ops

\* Job.findById
findById(jobId) == IF jobId \in JobIds /\ jobs[jobId] # NoJob THEN jobs[jobId] ELSE Null

\* an update that writes the whole document: what is not given falls back to the
\* schema default
updateOneOverwrite(jobId, fields) ==
  IF jobId \in JobIds /\ jobs[jobId] # NoJob
  THEN [jobs EXCEPT ![jobId] = [f \in DOMAIN jobs[jobId] |->
                                  IF f \in DOMAIN fields THEN fields[f]
                                  ELSE IF f = "mode" THEN "normal" ELSE jobs[jobId][f]]]
  ELSE jobs

\* Job.updateOne({_id}, {$set: fields}): no document matched, nothing written
updateOne(jobId, fields) ==
  IF jobId \in JobIds /\ jobs[jobId] # NoJob
  THEN [jobs EXCEPT ![jobId] = [f \in DOMAIN jobs[jobId] |->
                                  IF f \in DOMAIN fields THEN fields[f] ELSE jobs[jobId][f]]]
  ELSE jobs

RECURSIVE FirstMatch(_, _, _)
FirstMatch(coll, jobId, i) ==
  IF i > Len(coll) THEN 0
  ELSE IF coll[i].job_id = jobId THEN i ELSE FirstMatch(coll, jobId, i + 1)

\* a store that inserts without looking for the job's record
replaceOneInsert(coll, jobId, doc) == Append(coll, doc)

\* Model.replaceOne({job_id}, doc, {upsert: true})
replaceOne(coll, jobId, doc) ==
  LET i == FirstMatch(coll, jobId, 1)
  IN IF i = 0 THEN Append(coll, doc) ELSE [coll EXCEPT ![i] = doc]

\* Model.findOne({job_id})
findOne(coll, jobId) ==
  LET i == FirstMatch(coll, jobId, 1)
  IN IF i = 0 THEN Null ELSE coll[i]

RECURSIVE Without(_, _)
\* Model.deleteMany({job_id: {$in: ids}})
Without(coll, ids) ==
  IF coll = <<>> THEN <<>>
  ELSE IF Head(coll).job_id \in ids THEN Without(Tail(coll), ids)
       ELSE <<Head(coll)>> \o Without(Tail(coll), ids)

deleteMany(coll, ids) == Without(coll, ids)

\* a write that keeps only the writer's latest row
auditLogOverwrite(log, writer, jobId, eventType, detail, rule) ==
  [log EXCEPT ![writer] = <<[job_id |-> jobId, event_type |-> eventType,
                             detail |-> detail, rule |-> rule]>>]

\* INSERT INTO audit_log(job_id, event_type, payload). The table is kept as one
\* sequence of rows per writer, in serial-id order: writer t >= 1 is delegation t
\* together with the request that launched it, writer 0 is the upload and delete
\* handlers. The order of rows of different writers is not recorded.
auditLog(log, writer, jobId, eventType, detail, rule) ==
  [log EXCEPT ![writer] = Append(@, [job_id |-> jobId, event_type |-> eventType,
                                     detail |-> detail, rule |-> rule])]

\* ------------------------------------------------------------ ownership

\* a lookup that checks existence only
findOwnedJobAnyUser(jobId, user) == findById(jobId)

findOwnedJob(jobId, user) ==
  LET job == findById(jobId)
  IN IF job = Null THEN Null
     ELSE IF user.role = "admin" THEN job
     ELSE IF job.user_id # user.id THEN Null
     ELSE job

\* the users collection holds the administrator's account, created out of band:
\* no route creates an admin
SeedUsers == <<[_id |-> 0, email |-> "root@x", password_hash |-> <<"bcrypt", "rootpass">>,
                role |-> "admin"]>>

Init ==
  /\ users = SeedUsers
  /\ conn = NoConn
  /\ jobs = [j \in JobIds |-> NoJob]
  /\ analysisResults = <<>>
  /\ cleaningResults = <<>>
  /\ audit = [w \in 0..MaxTasks |-> <<>>]
  /\ disk = {}
  /\ tasks = [t \in TaskIds |-> NoTask]
  /\ del = NoDelete
  /\ nextJob = 1


\* ---------------------------------------------------------- POST /upload
\* a handler whose threshold test is not strict
UploadInclusive(s, size) ==
  /\ nextJob <= MaxJobs
  /\ LET jobId == nextJob
         mode == IF size >= UPLOAD_THRESHOLD THEN "large" ELSE "normal"
     IN /\ jobs' = [jobs EXCEPT ![jobId] =
                       [status |-> "starting", mode |-> mode, user_id |-> s,
                        file_path |-> <<"raw", jobId>>, cleaned_file_path |-> NoPath]]
        /\ disk' = disk \cup {<<"raw", jobId>>}
        /\ audit' = auditLog(auditLog(audit, 0, jobId, "JOB_CREATED", s, 0),
                             0, jobId, "FILE_UPLOADED", mode, 0)
        /\ nextJob' = nextJob + 1
  /\ UNCHANGED <<analysisResults, cleaningResults, tasks, del, users, conn>>

Upload(s, size) ==
  /\ nextJob <= MaxJobs
  /\ LET jobId == nextJob
         mode == IF size > UPLOAD_THRESHOLD THEN "large" ELSE "normal"
     IN /\ jobs' = [jobs EXCEPT ![jobId] =
                       [status |-> "starting", mode |-> mode, user_id |-> s,
                        file_path |-> <<"raw", jobId>>, cleaned_file_path |-> NoPath]]
        /\ disk' = disk \cup {<<"raw", jobId>>}
        /\ audit' = auditLog(auditLog(audit, 0, jobId, "JOB_CREATED", s, 0),
                             0, jobId, "FILE_UPLOADED", mode, 0)
        /\ nextJob' = nextJob + 1
  /\ UNCHANGED <<analysisResults, cleaningResults, tasks, del, users, conn>>

\* ------------------------------------------------- delegation tasks
IsAnalyze(t) == tasks[t].kind = "analyze"

\* the first unused task slot: delegations are numbered in launch order
FreeTask == CHOOSE t \in TaskIds : tasks[t].pc = "idle" /\ \A u \in TaskIds : u < t => tasks[u].pc # "idle"
HasFreeTask == \E t \in TaskIds : tasks[t].pc = "idle"

Launch(kind, jobId, s) ==
  [NoTask EXCEPT !.pc = "find", !.kind = kind, !.job = jobId, !.by = s, !.ack = "pending"]

AnalyzeDenied == Body("detail", "No uploaded file found for this job.")
AnalyzeAck == Body("message", "analysis started")
CleanDenied == Body("error", "Job not found")
CleanAck == Body("status", "cleaning_started")

\* POST /analyze/:jobId up to the first await after runAnalysis(jobId) was called
AnalyzeRequest(s, jobId) ==
  LET job == findOwnedJob(jobId, User(s))
  IN IF job = Null
     THEN UNCHANGED vars
     ELSE /\ HasFreeTask
          /\ tasks' = [tasks EXCEPT ![FreeTask] = Launch("analyze", jobId, s)]
          /\ UNCHANGED <<jobs, analysisResults, cleaningResults, audit, disk, del, nextJob, users, conn>>

\* POST /clean/:jobId up to the first await after runCleaning(jobId, options) was called
CleanRequest(s, jobId) ==
  LET job == findOwnedJob(jobId, User(s))
  IN IF job = Null
     THEN UNCHANGED vars
     ELSE /\ HasFreeTask
          /\ tasks' = [tasks EXCEPT ![FreeTask] = Launch("clean", jobId, s)]
          /\ UNCHANGED <<jobs, analysisResults, cleaningResults, audit, disk, del, nextJob, users, conn>>

\* a handler that awaits the delegation and reports its error
AckBodyAwaited(t) ==
  IF tasks[t].outcome \in {"http", "failed", "timeout"}
  THEN Body("error", tasks[t].outcome)
  ELSE IF tasks[t].kind = "analyze" THEN AnalyzeAck ELSE CleanAck

\* res.json({message: 'analysis started'}) / res.json({job_id, status: 'cleaning_started'})
AckBody(t) == IF IsAnalyze(t) THEN AnalyzeAck ELSE CleanAck

\* the rest of the request handler: await auditLog(..ENQUEUED..); res.json(ack)
HandlerAck(t) ==
  /\ tasks[t].ack = "pending"
  /\ audit' = auditLog(audit, t, tasks[t].job,
                       IF IsAnalyze(t) THEN "ANALYSIS_ENQUEUED" ELSE "CLEANING_ENQUEUED", "", 0)
  /\ tasks' = [tasks EXCEPT ![t].ack = AckBody(t).text, ![t].by = "none"]
  /\ UNCHANGED <<jobs, analysisResults, cleaningResults, disk, del, nextJob, users, conn>>

\* const job = await Job.findById(jobId); if (!job || !job.file_path) throw
TaskFind(t) ==
  /\ tasks[t].pc = "find"
  /\ LET job == findById(tasks[t].job)
     IN tasks' = IF job = Null \/ job.file_path = NoPath
                 THEN [tasks EXCEPT ![t].pc = "done", ![t].outcome = "nojob"]
                 ELSE [tasks EXCEPT ![t].pc = "setstatus"]
  /\ UNCHANGED <<jobs, analysisResults, cleaningResults, audit, disk, del, nextJob, users, conn>>

StartedStatus(t) == IF IsAnalyze(t) THEN "running" ELSE "cleaning"
\* a failure write of the enum value the lifecycle never stores
FailureStatusUnknown(t) == "unknown"
FailureStatus(t) == IF IsAnalyze(t) THEN "failed" ELSE "completed"
StartedEvent(t) == IF IsAnalyze(t) THEN "ANALYSIS_STARTED" ELSE "CLEANING_STARTED"
SuccessEvent(t) == IF IsAnalyze(t) THEN "ANALYSIS_COMPLETED" ELSE "CLEANING_COMPLETED"
FailureEvent(t) == IF IsAnalyze(t) THEN "ANALYSIS_FAILED" ELSE "ERROR"

\* await Job.updateOne({_id}, {$set: {status: 'running' | 'cleaning'}})
TaskSetStarted(t) ==
  /\ tasks[t].pc = "setstatus"
  /\ jobs' = updateOne(tasks[t].job, [status |-> StartedStatus(t)])
  /\ tasks' = [tasks EXCEPT ![t].pc = "logstart"]
  /\ UNCHANGED <<analysisResults, cleaningResults, audit, disk, del, nextJob, users, conn>>

\* await auditLog(jobId, '..._STARTED'); then fetch() is issued
TaskLogStarted(t) ==
  /\ tasks[t].pc = "logstart"
  /\ audit' = auditLog(audit, t, tasks[t].job, StartedEvent(t), "", 0)
  /\ tasks' = [tasks EXCEPT ![t].pc = "fetch"]
  /\ UNCHANGED <<jobs, analysisResults, cleaningResults, disk, del, nextJob, users, conn>>

\* the worker answers 2xx with status ok and the whole body arrives
FetchOk(t, payload, n) ==
  /\ tasks[t].pc = "fetch"
  /\ tasks' = [tasks EXCEPT ![t].pc = "store", ![t].outcome = "ok",
                            ![t].payload = payload, ![t].nrules = IF IsAnalyze(t) THEN 0 ELSE n]
  /\ disk' = IF IsAnalyze(t) THEN disk ELSE disk \cup {<<"cleaned", tasks[t].job>>}
  /\ UNCHANGED <<jobs, analysisResults, cleaningResults, audit, del, nextJob, users, conn>>

\* fetch rejects (refused), !response.ok (http) or data.status === 'failed' (failed)
FetchError(t, why) ==
  /\ tasks[t].pc = "fetch"
  /\ tasks' = [tasks EXCEPT ![t].pc = "catch", ![t].outcome = why]
  /\ UNCHANGED <<jobs, analysisResults, cleaningResults, audit, disk, del, nextJob, users, conn>>

\* the timer fires before fetch resolves: controller.abort() rejects the fetch
FetchTimeout(t) ==
  /\ tasks[t].pc = "fetch"
  /\ tasks' = [tasks EXCEPT ![t].pc = "catch", ![t].outcome = "timeout"]
  /\ UNCHANGED <<jobs, analysisResults, cleaningResults, audit, disk, del, nextJob, users, conn>>

\* fetch resolves with the status line (clearTimeout runs), the body never completes:
\* await response.json() stays pending
BodyStall(t) ==
  /\ tasks[t].pc = "fetch"
  /\ tasks' = [tasks EXCEPT ![t].pc = "json", ![t].outcome = "stall"]
  /\ UNCHANGED <<jobs, analysisResults, cleaningResults, audit, disk, del, nextJob, users, conn>>

ResultDoc(jobId, payload, n) == [job_id |-> jobId, payload |-> payload, nrules |-> n]

\* await AnalysisResult.replaceOne / CleaningResult.replaceOne (upsert)
TaskStore(t) ==
  /\ tasks[t].pc = "store"
  /\ LET doc == ResultDoc(tasks[t].job, tasks[t].payload, tasks[t].nrules)
     IN IF IsAnalyze(t)
        THEN /\ analysisResults' = replaceOne(analysisResults, tasks[t].job, doc)
             /\ UNCHANGED cleaningResults
        ELSE /\ cleaningResults' = replaceOne(cleaningResults, tasks[t].job, doc)
             /\ UNCHANGED analysisResults
  /\ tasks' = [tasks EXCEPT ![t].pc = "setdone"]
  /\ UNCHANGED <<jobs, audit, disk, del, nextJob, users, conn>>

\* a 2xx body with status ok that lacks a field the service reads: data.result
\* (analysis), data.cleaned_file_path or data.rules_applied (cleaning)
MissingFields(t) == IF IsAnalyze(t) THEN {"no_result"} ELSE {"no_path", "no_rules"}

\* the body is parsed and nothing in it is looked at before the store: the task goes
\* on as after a complete response, with undefined for the missing field
FetchIncomplete(t, missing) ==
  /\ tasks[t].pc = "fetch"
  /\ missing \in MissingFields(t)
  /\ tasks' = [tasks EXCEPT ![t].pc = "store", ![t].outcome = missing,
                            ![t].payload = IF missing = "no_result" THEN "none" ELSE "p1"]
  /\ disk' = IF missing = "no_rules" THEN disk \cup {<<"cleaned", tasks[t].job>>} ELSE disk
  /\ UNCHANGED <<jobs, analysisResults, cleaningResults, audit, del, nextJob, users, conn>>

\* data.cleaned_file_path: undefined when the worker's body has no such field
CleanedPath(t) == IF tasks[t].outcome = "no_path" THEN NoPath ELSE <<"cleaned", tasks[t].job>>

\* await Job.updateOne({_id}, {$set: {status: 'completed'}}) or
\* {$set: {cleaned_file_path, status: 'cleaned'}}; then for (const r of
\* data.rules_applied) throws a TypeError when rules_applied is undefined
TaskSetDone(t) ==
  /\ tasks[t].pc = "setdone"
  /\ jobs' = IF IsAnalyze(t)
             THEN updateOne(tasks[t].job, [status |-> "completed"])
             ELSE updateOne(tasks[t].job, [cleaned_file_path |-> CleanedPath(t),
                                           status |-> "cleaned"])
  /\ tasks' = [tasks EXCEPT ![t].pc = IF tasks[t].outcome = "no_rules" THEN "catch"
                                      ELSE IF tasks[t].nrules > 0 THEN "rules" ELSE "logdone",
                            ![t].payload = "none"]
  /\ UNCHANGED <<analysisResults, cleaningResults, audit, disk, del, nextJob, users, conn>>

\* a loop that writes no row for a rule
TaskLogRuleSkip(t) ==
  /\ tasks[t].pc = "rules"
  /\ tasks' = [tasks EXCEPT ![t].i = @ + 1,
                            ![t].pc = IF tasks[t].i + 1 < tasks[t].nrules THEN "rules" ELSE "logdone"]
  /\ UNCHANGED <<jobs, analysisResults, cleaningResults, audit, disk, del, nextJob, users, conn>>

\* for (const r of data.rules_applied) await auditLog(jobId, 'RULE_APPLIED', r)
TaskLogRule(t) ==
  /\ tasks[t].pc = "rules"
  /\ audit' = auditLog(audit, t, tasks[t].job, "RULE_APPLIED", "", tasks[t].i + 1)
  /\ tasks' = [tasks EXCEPT ![t].i = @ + 1,
                            ![t].pc = IF tasks[t].i + 1 < tasks[t].nrules THEN "rules" ELSE "logdone"]
  /\ UNCHANGED <<jobs, analysisResults, cleaningResults, disk, del, nextJob, users, conn>>

\* await auditLog(jobId, '..._COMPLETED', ...)
TaskLogDone(t) ==
  /\ tasks[t].pc = "logdone"
  /\ audit' = auditLog(audit, t, tasks[t].job, SuccessEvent(t), "", 0)
  /\ tasks' = [tasks EXCEPT ![t].pc = "done"]
  /\ UNCHANGED <<jobs, analysisResults, cleaningResults, disk, del, nextJob, users, conn>>

\* a catch block that writes 'failed' whatever the delegation is
TaskCatchRegress(t) ==
  /\ tasks[t].pc = "catch"
  /\ jobs' = updateOne(tasks[t].job, [status |-> "failed"])
  /\ tasks' = [tasks EXCEPT ![t].pc = "logfail"]
  /\ UNCHANGED <<analysisResults, cleaningResults, audit, disk, del, nextJob, users, conn>>

\* catch (err): await Job.updateOne({_id}, {$set: {status: 'failed' | 'completed'}})
TaskCatch(t) ==
  /\ tasks[t].pc = "catch"
  /\ jobs' = updateOne(tasks[t].job, [status |-> FailureStatus(t)])
  /\ tasks' = [tasks EXCEPT ![t].pc = "logfail"]
  /\ UNCHANGED <<analysisResults, cleaningResults, audit, disk, del, nextJob, users, conn>>

\* a catch block that calls the worker again after logging the failure
TaskLogFailRetry(t) ==
  /\ tasks[t].pc = "logfail"
  /\ audit' = auditLog(audit, t, tasks[t].job, FailureEvent(t), tasks[t].outcome, 0)
  /\ tasks' = [tasks EXCEPT ![t].pc = "fetch"]
  /\ UNCHANGED <<jobs, analysisResults, cleaningResults, disk, del, nextJob, users, conn>>

\* a catch block that logs the failure without the error's message
TaskLogFailNoDetail(t) ==
  /\ tasks[t].pc = "logfail"
  /\ audit' = auditLog(audit, t, tasks[t].job, FailureEvent(t), "", 0)
  /\ tasks' = [tasks EXCEPT ![t].pc = "done"]
  /\ UNCHANGED <<jobs, analysisResults, cleaningResults, disk, del, nextJob, users, conn>>

\* await auditLog(jobId, 'ANALYSIS_FAILED' | 'ERROR', {error}); throw err
TaskLogFail(t) ==
  /\ tasks[t].pc = "logfail"
  /\ audit' = auditLog(audit, t, tasks[t].job, FailureEvent(t), tasks[t].outcome, 0)
  /\ tasks' = [tasks EXCEPT ![t].pc = "done"]
  /\ UNCHANGED <<jobs, analysisResults, cleaningResults, disk, del, nextJob, users, conn>>

\* --------------------------------------------------------- DELETE /jobs
\* Job.find(filter): the ids of job_ids the caller may delete
OwnedIds(s, job_ids) ==
  {j \in job_ids \cap JobIds :
     /\ jobs[j] # NoJob
     /\ (Role(s) = "admin" \/ jobs[j].user_id = s)}

DeleteResponse(s, job_ids) ==
  IF job_ids = {} THEN Resp(400, Body("error", "job_ids array is required"))
  ELSE IF OwnedIds(s, job_ids) = {} THEN Resp(404, Body("error", "No matching jobs found"))
  ELSE [Resp(200, Body("deleted", "job_ids")) EXCEPT !.ids = OwnedIds(s, job_ids)]

\* the job_ids arrays of the request bodies: empty, one id, all ids
DeleteBodies == {{}} \cup {{j} : j \in ReqIds} \cup {JobIds}

\* up to the end of Promise.all([deleteMany x 3]): find, unlink the files, purge
DeleteRequest(s, job_ids) ==
  /\ del.pc = "idle"
  /\ LET ownedIds == OwnedIds(s, job_ids)
     IN IF DeleteResponse(s, job_ids).code # 200
        THEN UNCHANGED vars
        ELSE /\ disk' = disk \ ({jobs[j].file_path : j \in ownedIds}
                                  \cup {jobs[j].cleaned_file_path : j \in ownedIds})
             /\ jobs' = [j \in JobIds |-> IF j \in ownedIds THEN NoJob ELSE jobs[j]]
             /\ analysisResults' = deleteMany(analysisResults, ownedIds)
             /\ cleaningResults' = deleteMany(cleaningResults, ownedIds)
             /\ del' = [pc |-> "audit", by |-> s, ids |-> ownedIds]
             /\ UNCHANGED <<audit, tasks, nextJob, users, conn>>

RECURSIVE LogDeleted(_, _, _)
\* for (const id of ownedIds) await auditLog(id, 'JOB_DELETED', {deleted_by})
LogDeleted(log, ids, by) ==
  IF ids = {} THEN log
  ELSE LET id == CHOOSE x \in ids : \A y \in ids : x <= y
       IN LogDeleted(auditLog(log, 0, id, "JOB_DELETED", by, 0), ids \ {id}, by)

\* the audit rows are written, then res.json({deleted, job_ids})
DeleteFinish ==
  /\ del.pc = "audit"
  /\ audit' = LogDeleted(audit, del.ids, del.by)
  /\ del' = NoDelete
  /\ UNCHANGED <<jobs, analysisResults, cleaningResults, disk, tasks, nextJob, users, conn>>

\* ------------------------------------------- app.use('/uploads', express.static)
\* no auth middleware, no findOwnedJob: the file is served when it is on disk
StaticResponse(s, path) ==
  IF path \in disk /\ path[1] = "raw"
  THEN Resp(200, Body("file", "raw"))
  ELSE Resp(404, Body("error", "Not Found"))

StaticRequest(s, path) ==
  /\ StaticResponse(s, path).code \in {200, 404}
  /\ UNCHANGED vars

\* ------------------------------------------------------ read endpoints
\* GET /status/:jobId
StatusResponse(s, jobId) ==
  LET job == findOwnedJob(jobId, User(s))
  IN Resp(200, Body("status", IF job = Null THEN "unknown" ELSE job.status))

ResultsNotFound == Resp(404, Body("detail", "Results not found"))

\* GET /results/:jobId
ResultsResponse(s, jobId) ==
  LET job == findOwnedJob(jobId, User(s))
      analysis == findOne(analysisResults, jobId)
  IN IF job = Null THEN ResultsNotFound
     ELSE IF analysis = Null THEN ResultsNotFound
     ELSE Resp(200, Body("cleaned_data", analysis.payload))

\* GET /results/:jobId/export
ResultsExportResponse(s, jobId) ==
  LET job == findOwnedJob(jobId, User(s))
      analysis == findOne(analysisResults, jobId)
  IN IF job = Null THEN ResultsNotFound
     ELSE IF analysis = Null THEN ResultsNotFound
     ELSE Resp(200, Body("meta", analysis.payload))

\* what the worker may answer a proxied request; the other endpoints make no call
ProxyAnswers(ep) ==
  IF ep \in {"raw", "raw_with_outliers"} THEN {"ok", "error", "http", "refused"} ELSE {"none"}

\* GET /raw/:jobId and GET /raw_with_outliers/:jobId: proxied to the worker
RawResponse(s, jobId, w) ==
  LET job == findOwnedJob(jobId, User(s))
  IN IF job = Null \/ job.file_path = NoPath
     THEN Resp(404, Body("detail", "No data found for this job."))
     ELSE IF w = "http" THEN Resp(502, Body("detail", "Python worker error"))
     ELSE IF w = "error" THEN Resp(404, Body("detail", "worker error"))
     ELSE IF w = "refused" THEN Resp(503, Body("detail", "Python worker is not reachable"))
     ELSE Resp(200, Body("data", "rows"))

\* GET /cleaned/:jobId
CleanedResponse(s, jobId) ==
  LET job == findOwnedJob(jobId, User(s))
  IN IF job = Null \/ job.cleaned_file_path = NoPath
     THEN Resp(404, Body("error", "Cleaned file not found"))
     ELSE IF job.cleaned_file_path \notin disk
     THEN Resp(404, Body("error", "File missing on disk"))
     ELSE Resp(200, Body("file", "cleaned"))

\* GET /cleaning-result/:jobId
CleaningResultResponse(s, jobId) ==
  LET job == findOwnedJob(jobId, User(s))
      result == findOne(cleaningResults, jobId)
  IN IF job = Null THEN Resp(404, Body("error", "Not found"))
     ELSE IF result = Null THEN Resp(404, Body("error", "Not found"))
     ELSE Resp(200, Body("summary", result.payload))

\* GET /cleaning-result/:jobId/export
CleaningExportResponse(s, jobId) ==
  LET job == findOwnedJob(jobId, User(s))
      result == findOne(cleaningResults, jobId)
  IN IF job = Null THEN Resp(404, Body("error", "Not found"))
     ELSE IF result = Null THEN Resp(404, Body("error", "No cleaning result found"))
     ELSE Resp(200, Body("report", result.payload))

\* POST /analyze/:jobId and POST /clean/:jobId: what the request is answered
AnalyzeResponse(s, jobId) ==
  IF findOwnedJob(jobId, User(s)) = Null THEN Resp(404, AnalyzeDenied) ELSE Resp(200, AnalyzeAck)

CleanResponse(s, jobId) ==
  IF findOwnedJob(jobId, User(s)) = Null THEN Resp(404, CleanDenied) ELSE Resp(200, CleanAck)

ReadEndpoints == {"status", "results", "results_export", "raw", "raw_with_outliers",
                  "cleaned", "cleaning_result", "cleaning_export"}

\* the response of a job-scoped GET endpoint (w: what the worker answers a proxy)
ReadResponse(ep, s, jobId, w) ==
  CASE ep = "status" -> StatusResponse(s, jobId)
    [] ep = "results" -> ResultsResponse(s, jobId)
    [] ep = "results_export" -> ResultsExportResponse(s, jobId)
    [] ep \in {"raw", "raw_with_outliers"} -> RawResponse(s, jobId, w)
    [] ep = "cleaned" -> CleanedResponse(s, jobId)
    [] ep = "cleaning_result" -> CleaningResultResponse(s, jobId)
    [] ep = "cleaning_export" -> CleaningExportResponse(s, jobId)

\* a list filter that is empty for every caller
JobsFilterAll(user, j) == TRUE

\* GET /jobs: filter = role === 'admin' ? {} : {user_id: req.user.id}
JobsFilter(user, j) == user.role = "admin" \/ jobs[j].user_id = user.id

RECURSIVE SortedDesc(_)
\* .sort({created_at: -1}): ids are handed out in creation order
SortedDesc(ids) ==
  IF ids = {} THEN <<>>
  ELSE LET top == CHOOSE x \in ids : \A y \in ids : y <= x
       IN <<top>> \o SortedDesc(ids \ {top})

\* Job.find(filter), the two result finds over its ids, and the mapped list
JobsResponse(s) ==
  LET found == SortedDesc({j \in JobIds : jobs[j] # NoJob /\ JobsFilter(User(s), j)})
      analysisSet == {analysisResults[k].job_id : k \in 1..Len(analysisResults)}
      cleaningSet == {cleaningResults[k].job_id : k \in 1..Len(cleaningResults)}
  IN [code |-> 200,
      list |-> [k \in 1..Len(found) |->
                  [_id |-> found[k], status |-> jobs[found[k]].status, mode |-> jobs[found[k]].mode,
                   has_analysis |-> found[k] \in analysisSet,
                   has_cleaning |-> found[k] \in cleaningSet]]]

JobsRequest(s) ==
  /\ JobsResponse(s).code = 200
  /\ UNCHANGED vars

\* a GET handler runs to its response and writes nothing
ReadRequest(ep, s, jobId, w) ==
  /\ ReadResponse(ep, s, jobId, w).code \in {200, 404, 502, 503}
  /\ UNCHANGED vars

TaskStep(t) ==
  \/ TaskFind(t)
  \/ TaskSetStarted(t)
  \/ TaskLogStarted(t)
  \/ TaskStore(t)
  \/ TaskSetDone(t)
  \/ TaskLogRule(t)
  \/ TaskLogDone(t)
  \/ TaskCatch(t)
  \/ TaskLogFail(t)

WorkerStep(t) ==
  \/ \E p \in Payloads, n \in RuleCounts : FetchOk(t, p, n)
  \/ \E why \in {"http", "failed"} : FetchError(t, why)
  \/ FetchTimeout(t)
  \/ BodyStall(t)

Launched == Cardinality({t \in TaskIds : tasks[t].pc # "idle"})

\* the steps of the gateway in an environment where the subjects of uploaders upload
\* at most maxJobs files, of the given sizes, and at most maxTasks analyze or clean
\* requests reach an accessible job
NextEnv(uploaders, sizes, maxJobs, maxTasks) ==
  \/ \E s \in uploaders, size \in sizes : nextJob <= maxJobs /\ Upload(s, size)
  \/ \E s \in Subjects, j \in ReqIds : Launched < maxTasks /\ AnalyzeRequest(s, j)
  \/ \E s \in Subjects, j \in ReqIds : Launched < maxTasks /\ CleanRequest(s, j)
  \/ \E t \in TaskIds : HandlerAck(t)
  \/ \E t \in TaskIds : TaskStep(t)
  \/ \E t \in TaskIds : WorkerStep(t)
  \/ \E s \in Subjects, ids \in DeleteBodies : DeleteRequest(s, ids)
  \/ DeleteFinish

\* requests that write nothing
NextRead ==
  \/ \E s \in Subjects \cup {Anonymous}, j \in JobIds : StaticRequest(s, <<"raw", j>>)
  \/ \E ep \in ReadEndpoints, s \in Subjects, j \in ReqIds :
       \E w \in ProxyAnswers(ep) : ReadRequest(ep, s, j, w)
  \/ \E s \in Subjects : JobsRequest(s)

\* overlapping delegations on one job
Next == NextEnv({"u1"}, {UPLOAD_THRESHOLD}, RaceJobs, MaxTasks)

Spec == Init /\ [][Next]_vars

\* several jobs and owners, one delegation, and the requests that only read
NextAccess == NextEnv({"u1", "root"}, {UPLOAD_THRESHOLD}, MaxJobs, AccessTasks) \/ NextRead

SpecAccess == Init /\ [][NextAccess]_vars

\* one job, one delegation; every pending store write completes, every request is
\* answered, and a pending fetch ends (the worker answers or the abort timer fires)
NextSingle == NextEnv({"u1"}, {UPLOAD_THRESHOLD}, RaceJobs, AccessTasks)

FairSingle ==
  /\ Init
  /\ [][NextSingle]_vars
  /\ \A t \in TaskIds : WF_vars(TaskStep(t)) /\ WF_vars(WorkerStep(t)) /\ WF_vars(HandlerAck(t))
  /\ WF_vars(DeleteFinish)

\* two uploaders, files on both sides of the size threshold, several jobs, one
\* delegation
NextModes == NextEnv(Users, FileSizes, MaxJobs, AccessTasks)

SpecModes == Init /\ [][NextModes]_vars

\* one job, one delegation, and every answer of the worker: also a refused
\* connection and a success body that lacks a field
NextWorker ==
  \/ NextSingle
  \/ \E t \in TaskIds : FetchError(t, "refused")
  \/ \E t \in TaskIds, missing \in {"no_result", "no_path", "no_rules"} : FetchIncomplete(t, missing)

SpecWorker == Init /\ [][NextWorker]_vars

\* ------------------------------------------------- audit store failures
\* app.use((err, req, res, next) => res.status(500).json({error: 'Internal server error'}))
ErrorBody == Body("error", "Internal server error")
ErrorResponse == Resp(500, ErrorBody)

\* POST /upload when the failedAt-th auditLog call rejects (0: none does): catch, next(err)
UploadResponse(failedAt) ==
  IF failedAt = 0 THEN Resp(200, Body("job_id", "uuid")) ELSE ErrorResponse

\* POST /upload: Job.create succeeds, then the failedAt-th of the two auditLog calls
\* rejects; the rows before it are written and the job record stays
UploadAuditFail(s, size, failedAt) ==
  /\ nextJob <= MaxJobs
  /\ failedAt \in 1..2
  /\ LET jobId == nextJob
         mode == IF size > UPLOAD_THRESHOLD THEN "large" ELSE "normal"
     IN /\ jobs' = [jobs EXCEPT ![jobId] =
                       [status |-> "starting", mode |-> mode, user_id |-> s,
                        file_path |-> <<"raw", jobId>>, cleaned_file_path |-> NoPath]]
        /\ disk' = disk \cup {<<"raw", jobId>>}
        /\ audit' = IF failedAt = 1 THEN audit
                    ELSE auditLog(audit, 0, jobId, "JOB_CREATED", s, 0)
        /\ nextJob' = nextJob + 1
  /\ UNCHANGED <<analysisResults, cleaningResults, tasks, del, users, conn>>

\* the handler's await auditLog(..ENQUEUED..) rejects: catch, next(err), 500
HandlerAckFail(t) ==
  /\ tasks[t].ack = "pending"
  /\ tasks' = [tasks EXCEPT ![t].ack = ErrorResponse.body.text, ![t].by = "none"]
  /\ UNCHANGED <<jobs, analysisResults, cleaningResults, audit, disk, del, nextJob, users, conn>>

\* the task's await auditLog(jobId, '..._STARTED') rejects: it is outside the try
\* block, so runAnalysis / runCleaning rejects and the caller's .catch logs it
TaskLogStartedFail(t) ==
  /\ tasks[t].pc = "logstart"
  /\ tasks' = [tasks EXCEPT ![t].pc = "done", ![t].outcome = "auditfail"]
  /\ UNCHANGED <<jobs, analysisResults, cleaningResults, audit, disk, del, nextJob, users, conn>>

\* the n smallest of ids
FirstIds(ids, n) == {j \in ids : Cardinality({i \in ids : i < j}) < n}

\* DELETE /jobs when an auditLog call of its loop rejects (ok: none does)
DeleteFinishResponse(ok) ==
  IF ok THEN [Resp(200, Body("deleted", "job_ids")) EXCEPT !.ids = del.ids] ELSE ErrorResponse

\* DELETE /jobs: the loop's auditLog rejects after written rows; catch, next(err), 500
DeleteAuditFail(written) ==
  /\ del.pc = "audit"
  /\ written < Cardinality(del.ids)
  /\ audit' = LogDeleted(audit, FirstIds(del.ids, written), del.by)
  /\ del' = NoDelete
  /\ UNCHANGED <<jobs, analysisResults, cleaningResults, disk, tasks, nextJob, users, conn>>

\* several jobs, one delegation, and an audit store whose INSERT may fail
NextFaults ==
  \/ NextEnv({"u1"}, {UPLOAD_THRESHOLD}, MaxJobs, AccessTasks)
  \/ \E failedAt \in 1..2 : UploadAuditFail("u1", UPLOAD_THRESHOLD, failedAt)
  \/ \E t \in TaskIds : HandlerAckFail(t)
  \/ \E t \in TaskIds : TaskLogStartedFail(t)
  \/ \E written \in 0..(MaxJobs - 1) : DeleteAuditFail(written)

SpecFaults == Init /\ [][NextFaults]_vars

\* ------------------------------------------------------------- accounts
Emails == {"a@x", "b@x"}
\* "short" has 5 characters, the others 9
Passwords == {"short", "password1", "password2"}
PasswordLength(p) == IF p = "short" THEN 5 ELSE IF p = "" THEN 0 ELSE 9
MIN_PASSWORD_LENGTH == 8

\* the pre-save hook's bcrypt.hash and comparePassword's bcrypt.compare
Hash(password) == <<"bcrypt", password>>
comparePassword(user, candidate) == user.password_hash = Hash(candidate)

\* req.body of POST /register and POST /login: "" is a missing field; role is a
\* field the handlers never read ("none": not sent)
AccountBodies == [email : Emails \cup {""}, password : Passwords \cup {""}, role : {"none", "admin"}]

\* User.findOne({email})
findUserByEmail(email) ==
  LET hits == {i \in 1..Len(users) : users[i].email = email}
  IN IF hits = {} THEN Null ELSE users[CHOOSE i \in hits : TRUE]

\* User.findById(id)
findUserById(id) ==
  LET hits == {i \in 1..Len(users) : users[i]._id = id}
  IN IF hits = {} THEN Null ELSE users[CHOOSE i \in hits : TRUE]

\* jwt.sign({userId, role}, JWT_SECRET), set as the cookie 'token'
issueToken(user) == [kind |-> "jwt", userId |-> user._id, role |-> user.role]

\* a handler that takes the role from the request body
NewUserFromBody(body) ==
  [_id |-> Len(users), email |-> body.email, password_hash |-> Hash(body.password),
   role |-> IF body.role = "none" THEN "user" ELSE body.role]

\* new User({_id: uuid(), email, password_hash: password, role: 'user'})
NewUser(body) ==
  [_id |-> Len(users), email |-> body.email, password_hash |-> Hash(body.password),
   role |-> "user"]

\* POST /register
RegisterResponse(body) ==
  IF body.email = "" \/ body.password = ""
  THEN Resp(400, Body("error", "Email and password are required"))
  ELSE IF PasswordLength(body.password) < MIN_PASSWORD_LENGTH
  THEN Resp(400, Body("error", "Password must be at least 8 characters"))
  ELSE IF findUserByEmail(body.email) # Null
  THEN Resp(409, Body("error", "Email already registered"))
  ELSE Resp(201, Body("role", NewUser(body).role))

Register(body) ==
  IF RegisterResponse(body).code # 201
  THEN UNCHANGED vars
  ELSE /\ users' = Append(users, NewUser(body))
       /\ UNCHANGED <<jobs, analysisResults, cleaningResults, audit, disk, tasks, del, nextJob, conn>>

\* POST /login
LoginResponse(body) ==
  LET user == findUserByEmail(body.email)
  IN IF body.email = "" \/ body.password = ""
     THEN Resp(400, Body("error", "Email and password are required"))
     ELSE IF user = Null THEN Resp(401, Body("error", "Invalid email or password"))
     ELSE IF ~comparePassword(user, body.password)
     THEN Resp(401, Body("error", "Invalid email or password"))
     ELSE Resp(200, Body("role", issueToken(user).role))

Login(body) ==
  /\ LoginResponse(body).code \in {200, 400, 401}
  /\ UNCHANGED vars

\* POST /logout: clears the cookie
LogoutResponse == Resp(200, Body("message", "Logged out"))

Logout ==
  /\ LogoutResponse.code = 200
  /\ UNCHANGED vars

\* --------------------------------------------------------- auth middleware
\* the cookie 'token' of a request: none, one with a bad signature, an expired
\* one, or a token the service issued
NoCookie == [kind |-> "none", userId |-> 0, role |-> "none"]
BadCookies == {NoCookie,
               [kind |-> "forged", userId |-> 0, role |-> "admin"],
               [kind |-> "expired", userId |-> 0, role |-> "admin"]}
IssuedCookies == {issueToken(users[i]) : i \in 1..Len(users)}

\* jwt.verify succeeds
Verified(cookie) == cookie.kind = "jwt"

\* auth(req, res, next): the response when it does not call next()
auth(cookie) ==
  IF cookie.kind = "none" THEN Resp(401, Body("error", "Authentication required"))
  ELSE Resp(401, Body("error", "Invalid or expired token"))

\* GET /me
MeResponse(cookie) ==
  IF ~Verified(cookie) THEN auth(cookie)
  ELSE LET user == findUserById(cookie.userId)
       IN IF user = Null THEN Resp(404, Body("error", "User not found"))
          ELSE Resp(200, Body("role", user.role))

Me(cookie) ==
  /\ MeResponse(cookie).code \in {200, 401, 404}
  /\ UNCHANGED vars

\* the routes whose handler chain starts with auth
GuardedRoutes == {"upload", "analyze", "status", "results", "results_export", "raw",
                  "raw_with_outliers", "jobs", "delete_jobs", "clean", "cleaned",
                  "cleaning_result", "cleaning_export", "me"}
\* the routes mounted on app with no auth in front
OpenRoutes == {"uploads", "health"}
PublicRoutes == {"register", "login", "logout"}

\* GET /health with the audit store reachable
HealthResponse == Resp(200, Body("status", "ok"))

\* what a request whose cookie is not verified is answered on a route that is not
\* public (jobId: the job whose stored file GET /uploads/<file> names)
GateResponse(route, cookie, jobId) ==
  IF route \in GuardedRoutes THEN auth(cookie)
  ELSE IF route = "uploads" THEN StaticResponse(Anonymous, <<"raw", jobId>>)
  ELSE HealthResponse

\* such a request writes nothing: auth returns before the handler, express.static
\* and /health only read
GateRequest(route, cookie, jobId) ==
  /\ ~Verified(cookie)
  /\ GateResponse(route, cookie, jobId).code \in {200, 401, 404}
  /\ UNCHANGED vars

\* registrations and logins, uploads by two users, and requests with no valid cookie
NextGate ==
  \/ \E s \in Users, size \in FileSizes : Upload(s, size)
  \/ \E body \in AccountBodies : Register(body)
  \/ \E body \in AccountBodies : Login(body)
  \/ Logout
  \/ \E cookie \in BadCookies \cup IssuedCookies : Me(cookie)
  \/ \E route \in GuardedRoutes \cup OpenRoutes, cookie \in BadCookies, j \in JobIds :
       GateRequest(route, cookie, j)

SpecGate == Init /\ [][NextGate]_vars

\* ------------------------------------------- store failures inside the try block
\* await AnalysisResult.replaceOne / CleaningResult.replaceOne rejects: nothing is
\* stored, control goes to catch (err)
TaskStoreFail(t) ==
  /\ tasks[t].pc = "store"
  /\ tasks' = [tasks EXCEPT ![t].pc = "catch", ![t].outcome = "storefail"]
  /\ UNCHANGED <<jobs, analysisResults, cleaningResults, audit, disk, del, nextJob, users, conn>>

\* await auditLog(jobId, 'RULE_APPLIED', r) rejects inside the loop: the status
\* 'cleaned' is written already, control goes to catch (err)
TaskLogRuleFail(t) ==
  /\ tasks[t].pc = "rules"
  /\ tasks' = [tasks EXCEPT ![t].pc = "catch", ![t].outcome = "auditfail"]
  /\ UNCHANGED <<jobs, analysisResults, cleaningResults, audit, disk, del, nextJob, users, conn>>

\* await auditLog(jobId, '..._COMPLETED') rejects: the status 'completed' / 'cleaned'
\* is written already, control goes to catch (err)
TaskLogDoneFail(t) ==
  /\ tasks[t].pc = "logdone"
  /\ tasks' = [tasks EXCEPT ![t].pc = "catch", ![t].outcome = "auditfail"]
  /\ UNCHANGED <<jobs, analysisResults, cleaningResults, audit, disk, del, nextJob, users, conn>>

\* the catch block's await auditLog(jobId, 'ANALYSIS_FAILED' | 'ERROR') rejects: the
\* task rejects with that error, no row is written
TaskLogFailFail(t) ==
  /\ tasks[t].pc = "logfail"
  /\ tasks' = [tasks EXCEPT ![t].pc = "done"]
  /\ UNCHANGED <<jobs, analysisResults, cleaningResults, audit, disk, del, nextJob, users, conn>>

\* one job, one delegation, and stores whose writes inside the try block (and the
\* audit write of the catch block) may fail
NextStoreFaults ==
  \/ NextSingle
  \/ \E t \in TaskIds : TaskStoreFail(t)
  \/ \E t \in TaskIds : TaskLogRuleFail(t)
  \/ \E t \in TaskIds : TaskLogDoneFail(t)
  \/ \E t \in TaskIds : TaskLogFailFail(t)

SpecStoreFaults == Init /\ [][NextStoreFaults]_vars

\* ------------------------------------------------------ connectWithRetry
\* what a rejected mongoose.connect rejects with
ConnectErrors == {"ECONNREFUSED", "ETIMEDOUT", "EAUTH"}

\* the loop test while (attempt < retries): the next place of the call
LoopTest(attempt, retries) == IF attempt < retries THEN "connect" ELSE "returned"

\* connectWithRetry(retries, delayMs) is called: let attempt = 0, then the loop test;
\* control that leaves the loop falls off the end of the function
ConnectCall(retries) ==
  /\ conn.pc = "idle"
  /\ conn' = [conn EXCEPT !.pc = LoopTest(0, retries), !.retries = retries, !.attempt = 0]
  /\ UNCHANGED <<jobs, analysisResults, cleaningResults, audit, disk, tasks, del, nextJob, users>>

\* await mongoose.connect(...) resolves: return
ConnectOk ==
  /\ conn.pc = "connect"
  /\ conn' = [conn EXCEPT !.pc = "returned", !.calls = @ + 1, !.connected = TRUE]
  /\ UNCHANGED <<jobs, analysisResults, cleaningResults, audit, disk, tasks, del, nextJob, users>>

\* await mongoose.connect(...) rejects with err: attempt += 1;
\* if (attempt >= retries) throw err; else the delay is awaited
ConnectFails(err) ==
  /\ conn.pc = "connect"
  /\ conn' = [conn EXCEPT !.calls = @ + 1, !.attempt = @ + 1, !.last = err,
                          !.pc = IF conn.attempt + 1 >= conn.retries THEN "thrown" ELSE "wait",
                          !.thrown = IF conn.attempt + 1 >= conn.retries THEN err ELSE @]
  /\ UNCHANGED <<jobs, analysisResults, cleaningResults, audit, disk, tasks, del, nextJob, users>>

\* await new Promise((r) => setTimeout(r, delayMs)) resolves: back to the loop test
ConnectDelay ==
  /\ conn.pc = "wait"
  /\ conn' = [conn EXCEPT !.pc = LoopTest(conn.attempt, conn.retries)]
  /\ UNCHANGED <<jobs, analysisResults, cleaningResults, audit, disk, tasks, del, nextJob, users>>

\* (async () => { await connectWithRetry(); app.listen(PORT) })()
Listen ==
  /\ conn.pc = "returned"
  /\ conn' = [conn EXCEPT !.pc = "listening"]
  /\ UNCHANGED <<jobs, analysisResults, cleaningResults, audit, disk, tasks, del, nextJob, users>>

\* the startup of the process for every retry count a caller may pass (the default
\* is among them)
NextConnect ==
  \/ \E retries \in 0..MaxRetries : ConnectCall(retries)
  \/ ConnectOk
  \/ \E err \in ConnectErrors : ConnectFails(err)
  \/ ConnectDelay
  \/ Listen

\* every pending connect settles and every delay elapses
SpecConnect == Init /\ [][NextConnect]_vars /\ WF_vars(NextConnect)

\* ================================================================ claims
Exists(j) == j \in JobIds /\ jobs[j] # NoJob
Authorized(s, j) == Role(s) = "admin" \/ jobs[j].user_id = s
Ended(t) == tasks[t].pc = "done"

RECURSIVE Count(_, _)
Count(coll, jobId) ==
  IF coll = <<>> THEN 0
  ELSE (IF Head(coll).job_id = jobId THEN 1 ELSE 0) + Count(Tail(coll), jobId)

\* the edges of the lifecycle table
TransitionTable ==
  {<<"starting", "running">>, <<"running", "completed">>, <<"running", "failed">>,
   <<"completed", "cleaning">>, <<"failed", "cleaning">>, <<"cleaned", "cleaning">>,
   <<"cleaning", "cleaned">>, <<"cleaning", "completed">>}

\* C1: every change of the stored status of a job follows an edge of the
\* transition table, under any sequence of requests and worker outcomes.
C1_StatusFollowsTable ==
  [][\A j \in JobIds :
       (jobs[j] # NoJob /\ jobs'[j] # NoJob /\ jobs'[j].status # jobs[j].status)
         => <<jobs[j].status, jobs'[j].status>> \in TransitionTable]_vars

\* the six lifecycle values: the schema enum without 'unknown'
StoredStatuses == JobStatusEnum \ {"unknown"}

\* C2: the stored status of every existing job is one of the six lifecycle values;
\* 'unknown' is never stored, and a response carries status 'unknown' only when it
\* is the GET /status response for a job the caller cannot access.
C2_StatusValues ==
  /\ \A j \in JobIds : jobs[j] # NoJob => jobs[j].status \in StoredStatuses
  /\ \A ep \in ReadEndpoints, s \in Subjects, j \in ReqIds : \A w \in ProxyAnswers(ep) :
       ReadResponse(ep, s, j, w).body.text = "unknown"
         => ep = "status" /\ (~Exists(j) \/ ~Authorized(s, j))
  /\ \A s \in Subjects, j \in ReqIds :
       /\ AnalyzeResponse(s, j).body.text # "unknown"
       /\ CleanResponse(s, j).body.text # "unknown"
       /\ (~Exists(j) \/ ~Authorized(s, j)) => StatusResponse(s, j).body.text = "unknown"

\* a stranger is answered 'unknown' for a job whose owner is answered 'failed'
C2_Witness ==
  \E j \in JobIds :
    /\ Exists(j) /\ jobs[j].user_id = "u1" /\ jobs[j].status = "failed"
    /\ StatusResponse("u2", j).body.text = "unknown"
    /\ StatusResponse("u1", j).body.text = "failed"

\* ---- C3
Exceeded(t) == tasks[t].outcome \in {"timeout", "stall"}
IsFailureRow(t, e) == e.event_type = FailureEvent(t) /\ e.job_id = tasks[t].job
HasFailureRow(t) == \E k \in 1..Len(audit[t]) : IsFailureRow(t, audit[t][k])

\* C3: a delegation whose worker call exceeds the timeout is cancelled and its job
\* eventually is in the failure/fallback state with a failure audit event recorded
\* (a job deleted meanwhile has no state to reach).
C3_TimeoutLeadsToFailure ==
  \A t \in TaskIds :
    Exceeded(t) ~> (\/ ~Exists(tasks[t].job)
                    \/ /\ HasFailureRow(t)
                       /\ jobs[tasks[t].job].status = FailureStatus(t))

\* ---- C4
IsEnqueued(e) == e.event_type \in {"ANALYSIS_ENQUEUED", "CLEANING_ENQUEUED"}
\* the rows delegation t wrote (the enqueued row is the request handler's)
TaskRows(t) == SelectSeq(audit[t], LAMBDA e : ~IsEnqueued(e))
RuleRows(t) == [k \in 1..tasks[t].i |->
                  [job_id |-> tasks[t].job, event_type |-> "RULE_APPLIED", detail |-> "", rule |-> k]]
Row(t, type) == [job_id |-> tasks[t].job, event_type |-> type, detail |-> "", rule |-> 0]

\* C4: a delegation whose worker call succeeded writes, in this order, one started
\* event, one rule-applied event per rule of the worker's list (cleaning) and one
\* terminal event, all for its job; nothing else.
C4_SuccessRows ==
  \A t \in TaskIds :
    tasks[t].outcome = "ok" =>
      /\ TaskRows(t) = <<Row(t, StartedEvent(t))>> \o RuleRows(t)
                         \o (IF Ended(t) THEN <<Row(t, SuccessEvent(t))>> ELSE <<>>)
      /\ tasks[t].pc \in {"logdone", "done"} => tasks[t].i = tasks[t].nrules
      /\ tasks[t].i <= tasks[t].nrules

C4_Witness ==
  \E t \in TaskIds :
    /\ tasks[t].kind = "clean" /\ tasks[t].outcome = "ok" /\ Ended(t)
    /\ tasks[t].nrules = MaxRules /\ Len(TaskRows(t)) = MaxRules + 2

\* ---- C5
Stores(t) == tasks[t].pc = "store" /\ tasks'[t].pc = "setdone"

\* C5: at most one analysis result and one cleaning result per job id; a store by
\* a successful delegation leaves exactly one record for its job, holding the
\* payload of that (later) write.
C5_OneResultPerJob ==
  /\ [](\A j \in ReqIds : Count(analysisResults, j) <= 1 /\ Count(cleaningResults, j) <= 1)
  /\ [][\A t \in TaskIds :
          Stores(t) =>
            LET coll == IF IsAnalyze(t) THEN analysisResults' ELSE cleaningResults'
            IN /\ Count(coll, tasks[t].job) = 1
               /\ findOne(coll, tasks[t].job).payload = tasks[t].payload]_vars

\* two delegations of one kind for one job have both stored, the second a
\* different payload, and one record is there
C5_Witness ==
  \E t, u \in TaskIds :
    /\ t # u /\ tasks[t].kind = "analyze" /\ tasks[u].kind = "analyze"
    /\ tasks[t].job = tasks[u].job
    /\ tasks[t].pc = "setdone" /\ tasks[u].pc = "setdone"
    /\ tasks[t].payload # tasks[u].payload
    /\ Count(analysisResults, tasks[t].job) = 1

\* ---- C6
Stranger(s, j) == Exists(j) /\ ~Authorized(s, j)
\* the request body with the id j replaced by the id 0, which no job has
Masked(ids, j) == IF j \in ids THEN (ids \ {j}) \cup {0} ELSE ids

\* C6: on every job-scoped endpoint a subject that is neither admin nor owner of an
\* existing job gets exactly the response it gets for an id that no job has, and
\* never a 403.
C6_StrangerSeesNotFound ==
  \A s \in Subjects, j \in JobIds :
    Stranger(s, j) =>
      /\ \A ep \in ReadEndpoints : \A w \in ProxyAnswers(ep) :
           /\ ReadResponse(ep, s, j, w) = ReadResponse(ep, s, 0, w)
           /\ ReadResponse(ep, s, j, w).code # 403
           /\ ep # "status" => ReadResponse(ep, s, j, w).code = 404
      /\ StatusResponse(s, j).body.text = "unknown"
      /\ AnalyzeResponse(s, j) = AnalyzeResponse(s, 0) /\ AnalyzeResponse(s, j).code = 404
      /\ CleanResponse(s, j) = CleanResponse(s, 0) /\ CleanResponse(s, j).code = 404
      /\ \A ids \in DeleteBodies :
           /\ DeleteResponse(s, ids) = DeleteResponse(s, Masked(ids, j))
           /\ DeleteResponse(s, ids).code # 403
      /\ DeleteResponse(s, {j}).code = 404

\* a job with an analysis result: its owner is answered 200 with the result, the
\* stranger 404
C6_Witness ==
  \E j \in JobIds :
    /\ Exists(j) /\ jobs[j].user_id = "u1"
    /\ ResultsResponse("u1", j).code = 200 /\ ResultsResponse("u2", j).code = 404
    /\ StatusResponse("u1", j).body.text = "completed"
    /\ StatusResponse("u2", j).body.text = "unknown"

\* ---- C7
\* C7: no request by a subject that is neither admin nor owner of job j reads or
\* changes j, its results or its artifacts; an admin succeeds on every existing job.
C7_OnlyOwnerOrAdmin ==
  /\ \A s \in Subjects \cup {Anonymous}, j \in JobIds :
       Stranger(s, j) =>
         /\ StaticResponse(s, jobs[j].file_path).code # 200
         /\ \A t \in TaskIds : ~(tasks[t].by = s /\ tasks[t].job = j)
         /\ \A ids \in DeleteBodies : j \notin OwnedIds(s, ids)
         /\ s \in Subjects =>
              \A ep \in ReadEndpoints : \A w \in ProxyAnswers(ep) :
                ReadResponse(ep, s, j, w) = ReadResponse(ep, s, 0, w)
  /\ \A s \in Admins, j \in JobIds : Exists(j) => findOwnedJob(j, User(s)) = jobs[j]

\* ---- C8
NoRecord(results, j) == findOne(results, j) = Null
\* none of the ids of the request body names an existing job
AllGone(ids) == ids # {} /\ \A j \in ids : ~Exists(j)

\* C8: when a DELETE /jobs request completes, the job record, the analysis result
\* and the cleaning result of every job it deleted are absent; a DELETE naming only
\* ids that no longer exist or never existed is answered 404 and changes no job,
\* no result and no audit event.
C8_DeleteIdempotent ==
  [][/\ DeleteFinish =>
          \A j \in del.ids :
            /\ jobs'[j] = NoJob
            /\ NoRecord(analysisResults', j)
            /\ NoRecord(cleaningResults', j)
     /\ \A s \in Subjects, ids \in DeleteBodies :
          (AllGone(ids) /\ DeleteRequest(s, ids)) =>
            /\ DeleteResponse(s, ids).code = 404
            /\ UNCHANGED <<jobs, analysisResults, cleaningResults, audit>>]_vars

\* ---- C9
\* C9: a result record exists for a job id only while that job exists, also when a
\* delegation for the job was in flight when the job was deleted.
C9_NoResultWithoutJob ==
  \A j \in JobIds :
    jobs[j] = NoJob => NoRecord(analysisResults, j) /\ NoRecord(cleaningResults, j)

\* ---- C10
AckTexts == {AnalyzeAck.text, CleanAck.text}
Failed(t) == tasks[t].outcome \in {"http", "failed", "timeout", "stall", "nojob"}

\* C10: the acknowledgement of an accepted analyze or clean request can be sent
\* whatever the delegation is doing, and the response sent is the acknowledgement
\* whether the delegation succeeded, failed or timed out, never its error.
C10_AckIgnoresOutcome ==
  \A t \in TaskIds :
    /\ tasks[t].ack = "pending" => ENABLED HandlerAck(t)
    /\ tasks[t].ack \notin {"none", "pending"} =>
         tasks[t].ack = (IF IsAnalyze(t) THEN AnalyzeAck.text ELSE CleanAck.text)

\* one request was acknowledged while its worker call is in flight, another after
\* its delegation had failed
C10_Witness ==
  \E t, u \in TaskIds :
    /\ tasks[t].ack \in AckTexts /\ tasks[t].pc = "fetch"
    /\ tasks[u].ack \in AckTexts /\ Failed(u) /\ Ended(u)

\* ---- C11
\* the delegation has issued its fetch to the worker
WorkerCalled(t) == tasks[t].pc \notin {"idle", "find", "setstatus", "logstart"} /\ tasks[t].outcome # "nojob"
HasEnqueuedRow(log, t) == \E k \in 1..Len(log[t]) : IsEnqueued(log[t][k])

\* C11: when the acknowledgement of an accepted analyze (clean) request is sent,
\* the job's status is already running (cleaning) and the enqueued event of the
\* request is in the audit log, and the worker has not been called yet.
C11_AckAfterTransition ==
  [][\A t \in TaskIds :
       HandlerAck(t) =>
         /\ HasEnqueuedRow(audit', t)
         /\ Exists(tasks[t].job) => jobs[tasks[t].job].status = StartedStatus(t)
         /\ ~WorkerCalled(t)]_vars

\* ---- C12
Incomplete(t) == tasks[t].outcome \in {"no_result", "no_path", "no_rules"}

\* C12: a delegation whose worker answered success without a required field creates
\* or replaces no result record, moves the job only to the failure/fallback state
\* and ends with a failure audit event recorded.
C12_IncompleteIsFailure ==
  /\ [](\A t \in TaskIds : (Incomplete(t) /\ Ended(t)) => HasFailureRow(t))
  /\ [][\A t \in TaskIds :
          (Incomplete(t) /\ TaskStep(t)) =>
            /\ UNCHANGED <<analysisResults, cleaningResults>>
            /\ \A j \in JobIds :
                 (Exists(j) /\ jobs'[j] # jobs[j]) => jobs'[j].status = FailureStatus(t)]_vars

\* ---- C13
TransportFailed(t) == tasks[t].outcome \in {"refused", "http", "failed"}
FailureRow(t) == [job_id |-> tasks[t].job, event_type |-> FailureEvent(t),
                  detail |-> tasks[t].outcome, rule |-> 0]

\* C13: a delegation whose worker call ended in a transport error or a reported
\* failure writes the failure status once, appends one failure event that carries
\* the error detail (after its started event, nothing else), and stores no result.
C13_SingleFailure ==
  /\ [](\A t \in TaskIds :
          TransportFailed(t) =>
            /\ tasks[t].pc \in {"catch", "logfail", "done"}
            /\ TaskRows(t) = <<Row(t, StartedEvent(t))>>
                               \o (IF Ended(t) THEN <<FailureRow(t)>> ELSE <<>>))
  /\ [][\A t \in TaskIds :
          (TransportFailed(t) /\ TaskStep(t)) =>
            /\ UNCHANGED <<analysisResults, cleaningResults>>
            /\ tasks'[t].pc # "catch"
            /\ IF tasks[t].pc = "catch"
               THEN \A j \in JobIds :
                      /\ j # tasks[t].job => jobs'[j] = jobs[j]
                      /\ (j = tasks[t].job /\ Exists(j)) =>
                           jobs'[j] = [jobs[j] EXCEPT !.status = FailureStatus(t)]
               ELSE UNCHANGED jobs]_vars

\* a cleaning delegation whose connection was refused has ended: the job is back at
\* 'completed' and the log holds the ERROR event with the detail
C13_Witness ==
  \E t \in TaskIds :
    /\ tasks[t].kind = "clean" /\ tasks[t].outcome = "refused" /\ Ended(t)
    /\ Exists(tasks[t].job) /\ jobs[tasks[t].job].status = "completed"
    /\ cleaningResults = <<>>
    /\ Len(TaskRows(t)) = 2

\* ---- C14
\* an audit write issued for the request of delegation t has failed
AuditFailed(t) == tasks[t].outcome = "auditfail"

\* C14: a request of which an audit write failed before its response is answered
\* with the error response, never with the success acknowledgement: upload, analyze,
\* clean and delete.
C14_AuditFailureFailsRequest ==
  [][/\ \A t \in TaskIds :
          /\ HandlerAckFail(t) => tasks'[t].ack = ErrorBody.text
          /\ HandlerAck(t) => ~AuditFailed(t)
     /\ \A failedAt \in 1..2 :
          UploadAuditFail("u1", UPLOAD_THRESHOLD, failedAt) => UploadResponse(failedAt).code = 500
     /\ \A written \in 0..(MaxJobs - 1) :
          DeleteAuditFail(written) => DeleteFinishResponse(FALSE).code = 500]_vars

\* ---- C15
\* C15: on every route other than register, login and logout a request with no
\* cookie, a forged or an expired one is answered 401, and it changes nothing.
C15_NoCookieIs401 ==
  /\ [](\A route \in GuardedRoutes \cup OpenRoutes, cookie \in BadCookies, j \in JobIds :
          GateResponse(route, cookie, j).code = 401)
  /\ [][\A route \in GuardedRoutes \cup OpenRoutes, cookie \in BadCookies, j \in JobIds :
          GateRequest(route, cookie, j) => UNCHANGED vars]_vars

\* ---- C16
\* the accounts POST /register created: all but the seeded one
Registered == {i \in 1..Len(users) : i > Len(SeedUsers)}

\* C16: every account created through POST /register has role 'user', and no
\* step changes the role (or removes the account) of an existing subject.
C16_RegisterOnlyUsers ==
  /\ [](\A i \in Registered : users[i].role = "user")
  /\ [][/\ Len(users') >= Len(users)
        /\ \A i \in 1..Len(users) :
             users'[i]._id = users[i]._id /\ users'[i].role = users[i].role]_vars

\* both e-mail addresses are registered as users and the administrator is still
\* the only admin; a login of either is answered with role user
C16_Witness ==
  /\ Cardinality(Registered) = Cardinality(Emails)
  /\ users[1].role = "admin"
  /\ \E body \in AccountBodies :
       /\ body.role = "admin"
       /\ LoginResponse(body) = Resp(200, Body("role", "user"))

\* ---- C17
Listed(s) == {JobsResponse(s).list[k]._id : k \in 1..Len(JobsResponse(s).list)}

\* C17: GET /jobs lists, each once, exactly the existing jobs the caller owns (all
\* existing jobs for an admin), and a listed job has has_analysis (has_cleaning)
\* true exactly when an analysis (cleaning) result exists for its id.
C17_JobsList ==
  \A s \in Subjects :
    LET list == JobsResponse(s).list
    IN /\ Listed(s) = {j \in JobIds : Exists(j) /\ Authorized(s, j)}
       /\ Len(list) = Cardinality(Listed(s))
       /\ \A k \in 1..Len(list) :
            /\ list[k].has_analysis <=> ~NoRecord(analysisResults, list[k]._id)
            /\ list[k].has_cleaning <=> ~NoRecord(cleaningResults, list[k]._id)

\* a job of u1 and a job of the admin exist, one of them analysed: u1 is listed its
\* own job only, u2 none, the admin both, one with has_analysis set
C17_Witness ==
  /\ \E i, j \in JobIds : Exists(i) /\ Exists(j) /\ jobs[i].user_id = "u1" /\ jobs[j].user_id = "root"
  /\ Len(JobsResponse("u1").list) = 1
  /\ Len(JobsResponse("u2").list) = 0
  /\ Len(JobsResponse("root").list) = MaxJobs
  /\ \E k \in 1..MaxJobs : JobsResponse("root").list[k].has_analysis
  /\ \E k \in 1..MaxJobs : ~JobsResponse("root").list[k].has_analysis

\* ---- C18
\* C18: as long as a job exists its owner and its mode are those the upload set:
\* no step changes either.
C18_OwnerAndModeKept ==
  [][\A j \in JobIds :
       (Exists(j) /\ jobs'[j] # NoJob) =>
         /\ jobs'[j].user_id = jobs[j].user_id
         /\ jobs'[j].mode = jobs[j].mode]_vars

\* a large job of u2 has been cleaned by a delegation that has ended, and the
\* other job has been deleted
C18_Witness ==
  \E j \in JobIds, t \in TaskIds :
    /\ Exists(j) /\ jobs[j].mode = "large" /\ jobs[j].user_id = "u2"
    /\ tasks[t].job = j /\ Ended(t) /\ jobs[j].status = "cleaned"
    /\ nextJob > MaxJobs
    /\ \E i \in JobIds : ~Exists(i)

\* ---- C19
IsPrefix(a, b) == Len(a) <= Len(b) /\ SubSeq(b, 1, Len(a)) = a
\* the job-deleted events for job j
DeletedRows(log, j) ==
  Len(SelectSeq(log[0], LAMBDA e : e.event_type = "JOB_DELETED" /\ e.job_id = j))

\* C19: every step leaves each part of the audit log as it was with zero or more
\* events appended, and a completed DELETE /jobs appends one job-deleted event for
\* each job it deleted and for no other.
C19_AuditAppendOnly ==
  [][/\ \A w \in DOMAIN audit : IsPrefix(audit[w], audit'[w])
     /\ DeleteFinish =>
          \A j \in JobIds :
            DeletedRows(audit', j) = DeletedRows(audit, j) + (IF j \in del.ids THEN 1 ELSE 0)]_vars

\* one request deleted all jobs after a delegation had written its events: the log
\* holds the rows of the uploads, of the delegation and one job-deleted row per job
C19_Witness ==
  /\ \A j \in JobIds : ~Exists(j) /\ DeletedRows(audit, j) = 1
  /\ del = NoDelete
  /\ Len(audit[0]) = 3 * MaxJobs
  /\ audit[0][Len(audit[0])].event_type = "JOB_DELETED"
  /\ audit[0][Len(audit[0]) - 1].event_type = "JOB_DELETED"
  /\ \E t \in TaskIds : Ended(t) /\ Len(audit[t]) >= 3

\* ---- C20
BeforeCall == {"idle", "find", "setstatus", "logstart"}

\* C20: a delegation is started only by an accepted analyze or clean request, calls
\* the worker once, right after its started event, and never calls again: not
\* after a failure or a timeout either.
C20_OneCallPerRequest ==
  [][\A t \in TaskIds :
       /\ (tasks[t].pc = "idle" /\ tasks'[t].pc # "idle") =>
            \E s \in Subjects, j \in JobIds : AnalyzeRequest(s, j) \/ CleanRequest(s, j)
       /\ tasks[t].pc # "idle" =>
            /\ tasks'[t].pc # "idle"
            /\ tasks'[t].job = tasks[t].job /\ tasks'[t].kind = tasks[t].kind
       /\ (tasks[t].pc # "fetch" /\ tasks'[t].pc = "fetch") => tasks[t].pc = "logstart"
       /\ tasks[t].pc \notin BeforeCall =>
            /\ tasks'[t].pc \notin BeforeCall
            /\ tasks[t].pc # "fetch" => tasks'[t].pc # "fetch"]_vars

\* a delegation has ended in a timeout, its job is 'failed' and nothing calls the
\* worker; a second request for the job has a delegation of its own in its call
C20_Witness ==
  \E t, u \in TaskIds :
    /\ t # u /\ tasks[t].job = tasks[u].job
    /\ tasks[t].outcome = "timeout" /\ Ended(t)
    /\ tasks[u].pc = "fetch"

\* ---- C21
\* job_id occurs in no audit event, no result record and no delegation
Fresh(j) ==
  /\ jobs[j] = NoJob
  /\ \A w \in DOMAIN audit : \A k \in 1..Len(audit[w]) : audit[w][k].job_id # j
  /\ NoRecord(analysisResults, j) /\ NoRecord(cleaningResults, j)
  /\ \A t \in TaskIds : tasks[t].job # j

\* C21: a successful upload creates exactly one job, with a fresh id, status
\* 'starting', the authenticated subject as owner, and mode 'large' exactly when the
\* file is larger than the 50 MiB threshold: a file of the threshold size is 'normal'.
C21_UploadCreatesJob ==
  [][\A s \in Users, size \in FileSizes :
       Upload(s, size) =>
         \E j \in JobIds :
           /\ Fresh(j)
           /\ \A i \in JobIds \ {j} : jobs'[i] = jobs[i]
           /\ jobs'[j] # NoJob
           /\ jobs'[j].status = "starting"
           /\ jobs'[j].user_id = s
           /\ jobs'[j].mode = "large" <=> size > UPLOAD_THRESHOLD
           /\ size = UPLOAD_THRESHOLD => jobs'[j].mode = "normal"]_vars

\* u1 has uploaded a file of the threshold size and u2 a larger one: a normal job of
\* u1 and a large job of u2, both 'starting'
C21_Witness ==
  \E i, j \in JobIds :
    /\ Exists(i) /\ jobs[i].user_id = "u1" /\ jobs[i].mode = "normal" /\ jobs[i].status = "starting"
    /\ Exists(j) /\ jobs[j].user_id = "u2" /\ jobs[j].mode = "large" /\ jobs[j].status = "starting"
    /\ \E k \in 1..Len(audit[0]) :
         audit[0][k] = [job_id |-> i, event_type |-> "FILE_UPLOADED", detail |-> "normal", rule |-> 0]

\* ---- C22
\* the places of a delegation after its success status write
AfterSuccessWrite == {"rules", "logdone"}
\* the task enters the catch block, whose first statement is the failure status write
EntersCatch(t) == tasks[t].pc # "catch" /\ tasks'[t].pc = "catch"
Ends(t) == tasks[t].pc # "done" /\ tasks'[t].pc = "done"

\* C22: a delegation call performs exactly one terminal status write for its job:
\* the catch block (the failure write) is never entered once the success write was
\* made, and the call ends only after one of the two writes, also when a result
\* store write or an audit write of the delegation fails (a call that finds no job
\* has no job to write).
C22_OneTerminalWrite ==
  [][\A t \in TaskIds :
       /\ EntersCatch(t) => tasks[t].pc \notin AfterSuccessWrite \cup {"setdone"}
       /\ TaskCatch(t) => tasks'[t].pc = "logfail"
       /\ (Ends(t) /\ tasks'[t].outcome # "nojob") => tasks[t].pc \in {"logdone", "logfail"}]_vars

\* ---- C23
\* the worker call of a cleaning delegation failed or was aborted by the timer
CleaningFailed(t) == tasks[t].kind = "clean" /\ tasks[t].outcome \in {"http", "failed", "timeout"}

InExchange(t) == tasks[t].pc \in {"fetch", "json"}
\* the failure status write of the catch block is made
PastCatch(t) == tasks[t].pc \in {"logfail", "done"}

\* C24: the timeout bounds the whole exchange with the worker: every exchange
\* ends, and a delegation whose worker never answers, or answers a success status
\* line and never finishes the body, makes the failure/fallback transition.
C24_TimeoutBoundsExchange ==
  \A t \in TaskIds :
    /\ InExchange(t) ~> ~InExchange(t)
    /\ Exceeded(t) ~> PastCatch(t)

\* ---- C25
\* the delegations launched for job j
TasksOf(j) == {t \in TaskIds : tasks[t].pc # "idle" /\ tasks[t].job = j}
\* the places of a delegation before its write of 'running' / 'cleaning'
BeforeStarted == {"idle", "find", "setstatus"}

\* C25: a delegation that has written 'running' / 'cleaning' ends only after a
\* terminal status write, whichever of its steps fails (the append of the started
\* event too); so when all delegations of an existing job have ended its status is
\* not 'running' or 'cleaning'.
C25_NoJobLeftInProgress ==
  /\ [][\A t \in TaskIds :
          (Ends(t) /\ tasks[t].pc \notin BeforeStarted) => tasks[t].pc \in {"logdone", "logfail"}]_vars
  /\ [](\A j \in JobIds :
          (Exists(j) /\ \A t \in TasksOf(j) : Ended(t)) =>
            jobs[j].status \notin {"running", "cleaning"})

\* ---- C26
\* no delegation for job j is between its launch and its end
NoneInFlight(j) == \A t \in TasksOf(j) : Ended(t)

\* C26: while no delegation for a job is in flight, a job whose stored status is
\* 'completed' has an analysis result record, and GET /results/:jobId by its owner
\* is not answered 404.
C26_CompletedHasResult ==
  \A j \in JobIds :
    (Exists(j) /\ NoneInFlight(j) /\ jobs[j].status = "completed") =>
      /\ ~NoRecord(analysisResults, j)
      /\ ResultsResponse(jobs[j].user_id, j).code # 404

\* ---- C27
IsStarted(e) == e.event_type \in {"ANALYSIS_STARTED", "CLEANING_STARTED"}

\* C27: for every accepted analyze or clean request the enqueued event of the
\* request is in the audit log before the started event of the delegation the
\* request launched, however the handler and the task interleave.
C27_EnqueuedBeforeStarted ==
  \A t \in TaskIds : \A k \in 1..Len(audit[t]) :
    IsStarted(audit[t][k]) => \E i \in 1..(k - 1) : IsEnqueued(audit[t][i])

\* ---- C28
Settled == {"returned", "thrown", "listening"}

\* C28: connectWithRetry(retries, delayMs) always terminates; it makes at most
\* retries connection attempts, returns normally only after an attempt that
\* succeeded, and throws the error of the last attempt when retries attempts in a
\* row fail, for every retries >= 0.
C28_ConnectWithRetry ==
  /\ [](conn.calls <= conn.retries)
  /\ [](conn.pc \in {"returned", "listening"} => conn.connected)
  /\ [](conn.pc = "thrown" =>
          /\ conn.calls = conn.retries /\ conn.attempt = conn.retries
          /\ ~conn.connected /\ conn.thrown = conn.last)
  /\ [](conn.attempt = conn.retries /\ conn.pc # "idle" /\ ~conn.connected => conn.pc = "thrown")
  /\ (conn.pc # "idle" ~> conn.pc \in Settled)
====
